---- MODULE Spec2Model ----
(***************************************************************************)
(* Firestore persistence for LangGraph: the namespaced key-value store     *)
(* (FirestoreStore) and the checkpoint saver built on it (FirestoreSaver). *)
(*                                                                         *)
(* The backend is a document database: a document lives at a collection    *)
(* path (the namespace segments joined by "/") under a document id.  A     *)
(* saver put is a sequence of store puts (channel blobs, the pending-sends *)
(* record, the checkpoint header); each store put is one step of the       *)
(* model, and a backend failure can end the put before any of them.        *)
(***************************************************************************)
EXTENDS Integers, Sequences, FiniteSets, TLC

(***************************************************************************)
(* Bounds of the model.                                                    *)
(***************************************************************************)
MaxPuts == 2
NumVersions == 2

Channels == {"x", "y"}
\* the order of the channels in the dicts of a checkpoint
ChannelOrder == <<"x", "y">>
Versions == 1..NumVersions
Values == {"a", "b"}
Msgs == {"m1", "m2"}
CheckpointIds == {"c1", "c2"}
BackendErrors == {"StoreUnavailable"}

(***************************************************************************)
(* Python values.                                                          *)
(***************************************************************************)
\* the empty dict {}
EmptyDict == <<>>

\* None, where the other values are strings
None == "None"

\* a document snapshot with doc.exists false / store.get returning None
NoItem == [exists |-> FALSE]

Range(s) == {s[i] : i \in DOMAIN s}

\* the dicts with keys among D and values in R
Dicts(D, R) == UNION {[d -> R] : d \in SUBSET D}

(***************************************************************************)
(* Serializer: dumps_typed gives a type tag and a payload, loads_typed     *)
(* resolves a payload through its tag.                                     *)
(***************************************************************************)
dumps_typed(value) == <<"msgpack", "packed:" \o value>>

loads_typed(typed) ==
    CHOOSE value \in Values \cup Msgs : dumps_typed(value) = typed

(***************************************************************************)
(* FirestoreStore                                                          *)
(***************************************************************************)
RECURSIVE _get_collection_path(_)
_get_collection_path(namespace) ==
    IF Len(namespace) = 0 THEN ""
    ELSE IF Len(namespace) = 1 THEN namespace[1]
    ELSE namespace[1] \o "/" \o _get_collection_path(Tail(namespace))

\* the address of a document: its collection path and its document id
DocRef(namespace, key) == <<_get_collection_path(namespace), key>>

\* FirestoreStore.get
StoreGet(d, namespace, key) ==
    IF DocRef(namespace, key) \notin DOMAIN d THEN NoItem
    ELSE LET data == d[DocRef(namespace, key)]
         IN  [exists |-> TRUE,
              namespace |-> namespace,
              key |-> key,
              value |-> data.value,
              created_at |-> data.created_at,
              updated_at |-> data.updated_at]

\* FirestoreStore.put at server time now: update of value and updated_at when
\* the document exists, set of all three fields when it does not
StorePut(d, now, namespace, key, value) ==
    LET ref == DocRef(namespace, key)
        data == IF ref \in DOMAIN d
                THEN [d[ref] EXCEPT !.value = value, !.updated_at = now]
                ELSE [value |-> value, created_at |-> now, updated_at |-> now]
    IN  [r \in DOMAIN d \cup {ref} |-> IF r = ref THEN data ELSE d[r]]

\* The two backend calls of FirestoreStore.put, which other callers can come
\* between: the read doc_ref.get() and the write it chooses.

\* doc.exists of doc_ref.get()
StoreExists(d, namespace, key) == DocRef(namespace, key) \in DOMAIN d

\* doc_ref.update needs the document: the backend fails it with NotFound when
\* the document is not there
UpdateFails(d, exists, namespace, key) ==
    exists /\ DocRef(namespace, key) \notin DOMAIN d

\* a write whose update touches updated_at and leaves the value
StoreWriteKeepsValue(d, now, exists, namespace, key, value) ==
    LET ref == DocRef(namespace, key)
    IN  IF exists
        THEN IF ref \in DOMAIN d THEN [d EXCEPT ![ref].updated_at = now] ELSE d
        ELSE [r \in DOMAIN d \cup {ref} |->
                IF r = ref
                THEN [value |-> value, created_at |-> now, updated_at |-> now]
                ELSE d[r]]

\* the write of FirestoreStore.put at server time now, after its read has
\* found exists: update of value and updated_at, or set of the whole document
StoreWrite(d, now, exists, namespace, key, value) ==
    LET ref == DocRef(namespace, key)
    IN  IF exists
        THEN IF ref \in DOMAIN d
             THEN [d EXCEPT ![ref].value = value, ![ref].updated_at = now]
             ELSE d
        ELSE [r \in DOMAIN d \cup {ref} |->
                IF r = ref
                THEN [value |-> value, created_at |-> now, updated_at |-> now]
                ELSE d[r]]

\* a delete that empties the collection of the document
StoreDeleteCollection(d, namespace, key) ==
    [r \in {q \in DOMAIN d : q[1] # _get_collection_path(namespace)} |-> d[r]]

\* FirestoreStore.delete: doc_ref.delete(), which the backend accepts whether
\* the document is there or not
StoreDelete(d, namespace, key) ==
    [r \in DOMAIN d \ {DocRef(namespace, key)} |-> d[r]]

\* document ids in the backend's order (ascending, character by character)
DocIdOrder == <<"1", "2", "3", "4", "c1", "c2", "c3", "pending_sends">>

DocIdRank(key) == CHOOSE i \in DOMAIN DocIdOrder : DocIdOrder[i] = key

\* query.stream() without order_by: the documents of one collection in
\* ascending order of document id
RECURSIVE Stream(_)
Stream(keys) ==
    IF keys = {} THEN <<>>
    ELSE LET first == CHOOSE k \in keys : \A o \in keys : DocIdRank(k) <= DocIdRank(o)
         IN  <<first>> \o Stream(keys \ {first})

\* a limit or offset of None
Unset == -1

\* Python truth of an optional number: None and 0 are both false
Truthy(n) == n # Unset /\ n # 0

\* the filter of a search: equality on named fields of the value
Matches(data, filter) ==
    \A k \in DOMAIN filter : k \in DOMAIN data.value /\ data.value[k] = filter[k]

\* FirestoreStore.search
StoreSearch(d, namespace_prefix, filter, limit, offset) ==
    LET collection_path == _get_collection_path(namespace_prefix)
        keys == {r[2] : r \in {q \in DOMAIN d : q[1] = collection_path
                                               /\ Matches(d[q], filter)}}
        all == Stream(keys)
        skipped == IF Truthy(offset)
                   THEN SubSeq(all, offset + 1, Len(all))
                   ELSE all
        results == IF Truthy(limit) /\ limit < Len(skipped)
                   THEN SubSeq(skipped, 1, limit)
                   ELSE skipped
    IN  [i \in DOMAIN results |->
            LET data == d[<<collection_path, results[i]>>]
            IN  [exists |-> TRUE,
                 namespace |-> namespace_prefix,
                 key |-> results[i],
                 value |-> data.value,
                 created_at |-> data.created_at,
                 updated_at |-> data.updated_at]]

(***************************************************************************)
(* FirestoreSaver                                                          *)
(***************************************************************************)
\* a config is the dict under its "configurable" key
_get_thread_id(config) ==
    IF "thread_id" \in DOMAIN config THEN config.thread_id ELSE "default"

_get_checkpoint_namespace(config) ==
    IF "checkpoint_namespace" \in DOMAIN config THEN config.checkpoint_namespace ELSE ""

\* str(version), the document id of a blob
StrVersion(version) == ToString(version)

CheckpointsNs(config) ==
    <<"checkpoints", _get_thread_id(config), _get_checkpoint_namespace(config)>>

BlobsNs(config, channel) ==
    <<"checkpoint_blobs", _get_thread_id(config), _get_checkpoint_namespace(config), channel>>

\* a pending-sends record per scope, whatever the checkpoint id
WritesNsPerScope(config, checkpoint_id) ==
    <<"checkpoint_writes", _get_thread_id(config), _get_checkpoint_namespace(config), "sends">>

WritesNs(config, checkpoint_id) ==
    <<"checkpoint_writes", _get_thread_id(config), _get_checkpoint_namespace(config), checkpoint_id>>

\* FirestoreSaver.list: (checkpoint id, metadata) of the items found
SaverList(d, config, limit) ==
    LET items == StoreSearch(d, CheckpointsNs(config), EmptyDict, limit, Unset)
    IN  [i \in DOMAIN items |-> <<items[i].key, items[i].value.metadata>>]

\* FirestoreSaver.get with a checkpoint id
SaverGetId(d, config, checkpoint_id) ==
    LET checkpoint_item == StoreGet(d, CheckpointsNs(config), checkpoint_id)
    IN  IF ~checkpoint_item.exists THEN NoItem
        ELSE
        LET checkpoint == checkpoint_item.value.checkpoint
            versions == checkpoint.channel_versions
            channel_item(c) == StoreGet(d, BlobsNs(config, c), StrVersion(versions[c]))
            loaded == {c \in DOMAIN versions :
                          /\ channel_item(c).exists
                          /\ channel_item(c).value.type # "empty"}
            pending_sends_item == StoreGet(d, WritesNs(config, checkpoint_id), "pending_sends")
        IN  [checkpoint EXCEPT
                !.channel_values =
                    [c \in loaded |->
                        loads_typed(<<channel_item(c).value.type, channel_item(c).value.blob>>)],
                !.pending_sends =
                    IF pending_sends_item.exists
                    THEN [i \in DOMAIN pending_sends_item.value.sends |->
                            loads_typed(<<pending_sends_item.value.sends[i].type,
                                          pending_sends_item.value.sends[i].blob>>)]
                    ELSE <<>>]

\* FirestoreSaver.get; a checkpoint id of None resolves through list(limit=1)
SaverGet(d, config, checkpoint_id) ==
    IF checkpoint_id = None
    THEN LET checkpoints == SaverList(d, config, 1)
         IN  IF Len(checkpoints) = 0 THEN NoItem
             ELSE SaverGetId(d, config, checkpoints[1][1])
    ELSE SaverGetId(d, config, checkpoint_id)

\* metadata.get("parents", {}).get(checkpoint_ns)
ParentCheckpointId(metadata, checkpoint_ns) ==
    IF "parents" \in DOMAIN metadata /\ checkpoint_ns \in DOMAIN metadata.parents
    THEN metadata.parents[checkpoint_ns]
    ELSE None

\* a put that writes the blob of every channel it has a value for, at the
\* version of channel_versions
BlobWritesUnfiltered(a) ==
    {[channel |-> c, version |-> a.checkpoint.channel_versions[c]] :
        c \in {k \in DOMAIN a.checkpoint.channel_values :
                    k \in DOMAIN a.checkpoint.channel_versions}}

\* the blobs a put writes: one per channel of channel_values that is in
\* new_versions, at the version new_versions gives it
BlobWrites(a) ==
    {[channel |-> c, version |-> a.new_versions[c]] :
        c \in {k \in DOMAIN a.checkpoint.channel_values : k \in DOMAIN a.new_versions}}

\* the loop over channel_values.items() takes the channels in dict order
Before(c, d) ==
    \E i, j \in DOMAIN ChannelOrder :
        ChannelOrder[i] = c /\ ChannelOrder[j] = d /\ i < j

\* the document of a blob: the channel's collection, the version as a string
BlobRef(config, channel, version) ==
    DocRef(BlobsNs(config, channel), StrVersion(version))

\* a put that tags every blob as empty
BlobValueEmpty(a, channel) == [type |-> "empty", blob |-> ""]

BlobValue(a, channel) ==
    LET typed == dumps_typed(a.checkpoint.channel_values[channel])
    IN  [type |-> typed[1], blob |-> typed[2]]

\* the pending-sends record of a checkpoint id
SendsRef(config, checkpoint_id) ==
    DocRef(WritesNs(config, checkpoint_id), "pending_sends")

SendsValue(a) ==
    [sends |-> [i \in DOMAIN a.checkpoint.pending_sends |->
                    LET typed == dumps_typed(a.checkpoint.pending_sends[i])
                    IN  [type |-> typed[1], blob |-> typed[2]]]]

\* the checkpoint document of a checkpoint id
HeaderRef(config, checkpoint_id) ==
    DocRef(CheckpointsNs(config), checkpoint_id)

\* a put that strips channel_versions from the checkpoint document as well
HeaderValueNoVersions(a) ==
    [checkpoint |-> [a.checkpoint EXCEPT !.channel_values = EmptyDict,
                                         !.channel_versions = EmptyDict,
                                         !.pending_sends = <<>>],
     metadata |-> a.metadata,
     parent_checkpoint_id |->
        ParentCheckpointId(a.metadata, _get_checkpoint_namespace(a.config))]

\* a put that stores the checkpoint as it was passed
HeaderValueUnstripped(a) ==
    [checkpoint |-> a.checkpoint,
     metadata |-> a.metadata,
     parent_checkpoint_id |->
        ParentCheckpointId(a.metadata, _get_checkpoint_namespace(a.config))]

HeaderValue(a) ==
    [checkpoint |-> [a.checkpoint EXCEPT !.channel_values = EmptyDict,
                                         !.pending_sends = <<>>],
     metadata |-> a.metadata,
     parent_checkpoint_id |->
        ParentCheckpointId(a.metadata, _get_checkpoint_namespace(a.config))]

\* a put that commits first: the checkpoint document, then the blobs and the
\* pending sends
StageHeaderFirst(a, written) ==
    IF HeaderRef(a.config, a.checkpoint.id) \notin written
    THEN "header"
    ELSE IF \E w \in BlobWrites(a) : BlobRef(a.config, w.channel, w.version) \notin written
    THEN "blobs"
    ELSE IF a.checkpoint.pending_sends # <<>>
            /\ SendsRef(a.config, a.checkpoint.id) \notin written
    THEN "sends"
    ELSE "done"

\* a put that writes the pending sends after the checkpoint document
StageSendsLast(a, written) ==
    IF \E w \in BlobWrites(a) : BlobRef(a.config, w.channel, w.version) \notin written
    THEN "blobs"
    ELSE IF HeaderRef(a.config, a.checkpoint.id) \notin written
    THEN "header"
    ELSE IF a.checkpoint.pending_sends # <<>>
            /\ SendsRef(a.config, a.checkpoint.id) \notin written
    THEN "sends"
    ELSE "done"

\* where FirestoreSaver.put stands once it has written the documents in
\* written: the blobs first, then the pending sends if there are any, then
\* the checkpoint document, then the return
Stage(a, written) ==
    IF \E w \in BlobWrites(a) : BlobRef(a.config, w.channel, w.version) \notin written
    THEN "blobs"
    ELSE IF a.checkpoint.pending_sends # <<>>
            /\ SendsRef(a.config, a.checkpoint.id) \notin written
    THEN "sends"
    ELSE IF HeaderRef(a.config, a.checkpoint.id) \notin written
    THEN "header"
    ELSE "done"

\* no handler stands between a backend call and the caller of put
Propagate(error) == error

(***************************************************************************)
(* The calls of FirestoreSaver.put                                         *)
(***************************************************************************)
Configs == {[thread_id |-> "t1"]}

PendingSends == {<<>>, <<"m1", "m2">>}

\* c1 is a root checkpoint, c2 names c1 as its parent
MetadataOf(checkpoint_id) ==
    IF checkpoint_id = "c1" THEN EmptyDict ELSE [parents |-> ("" :> "c1")]

Checkpoints ==
    [id : CheckpointIds,
     channel_versions : Dicts(Channels, Versions),
     channel_values : Dicts(Channels, Values),
     pending_sends : PendingSends]

\* the checkpoints of the engine: channel_versions has every channel the
\* checkpoint names, and new_versions is the part of it this step has bumped
\* (a bumped channel may have no value, an unchanged one may have kept it)
EngineShaped(checkpoint, new_versions) ==
    /\ DOMAIN checkpoint.channel_values \subseteq DOMAIN checkpoint.channel_versions
    /\ DOMAIN new_versions \subseteq DOMAIN checkpoint.channel_versions
    /\ \A c \in DOMAIN new_versions : new_versions[c] = checkpoint.channel_versions[c]

PutArgs ==
    {[config |-> config,
      checkpoint |-> call[1],
      metadata |-> MetadataOf(call[1].id),
      new_versions |-> call[2]] :
        config \in Configs,
        call \in {k \in Checkpoints \X Dicts(Channels, Versions) : EngineShaped(k[1], k[2])}}

NoArgs == [config |-> EmptyDict]

VARIABLES
    docs,        \* the documents of the backend, by collection path and document id
    clock,       \* the backend's time: the last server timestamp given out
    pc,          \* "idle", or the put called last: "running", "returned", "raised"
    cur,         \* the arguments of the put called last
    log,         \* the documents that put has written, in order
    exc,         \* the error that put raised to its caller
    backendErr,  \* the error the backend raised in that put
    nputs,       \* the number of puts called
    wrote,       \* per blob or pending-sends document, the checkpoint id and the
                 \* value of the put that wrote it last
    before,      \* the documents of the backend when the put called last was called
    procs,       \* the saver puts that run concurrently, one per thread of the caller
    ops,         \* the calls made on the store itself, in the order they were made
    owner,       \* per document, the namespace and value of the store put that
                 \* wrote it last
    sub,         \* the subscription of FirestoreStateAdapter.watch
    invoked,     \* the invocations of the watch callback, in order
    nops,        \* the number of calls made on the state adapter
    acall        \* the call made last on the state adapter or the node wrapper:
                 \* its arguments and what the caller has after it

\* the state of the single sequence of saver puts
saverVars == <<pc, cur, log, exc, backendErr, nputs, wrote, before>>

\* the state of the callers of the store
storeVars == <<ops, owner>>

\* the state of the callers of the state adapter
adapterVars == <<sub, invoked, nops, acall>>

\* what the single sequence of saver puts leaves alone
otherVars == <<procs, storeVars, adapterVars>>

\* what the concurrent saver puts leave alone
notConc == <<saverVars, storeVars, adapterVars>>

\* what the callers of the store leave alone
notStore == <<saverVars, procs, adapterVars>>

\* what the state adapter leaves alone
notAdapter == <<saverVars, procs, storeVars>>

vars == <<docs, clock, pc, cur, log, exc, backendErr, nputs, wrote, before, procs, ops, owner,
          sub, invoked, nops, acall>>

\* no call yet
NoCall == [op |-> None]

\* no subscription yet; unsubs has the time of each call of unsubscribe
NoSub == [state |-> "none", key |-> None, pending |-> <<>>, running |-> FALSE,
          unsubs |-> <<>>]

\* a thread of the caller that has not called yet
IdleProc == [pc |-> "idle", a |-> NoArgs, log |-> <<>>, exists |-> FALSE, exc |-> None]

Procs == {1, 2}

Init ==
    /\ docs = <<>>
    /\ clock = 0
    /\ pc = "idle"
    /\ cur = NoArgs
    /\ log = <<>>
    /\ exc = None
    /\ backendErr = None
    /\ nputs = 0
    /\ wrote = <<>>
    /\ before = <<>>
    /\ procs = [p \in Procs |-> IdleProc]
    /\ ops = <<>>
    /\ owner = <<>>
    /\ sub = NoSub
    /\ invoked = <<>>
    /\ nops = 0
    /\ acall = NoCall

\* one store put of the running saver put
Write(namespace, key, value) ==
    /\ clock' = clock + 1
    /\ docs' = StorePut(docs, clock + 1, namespace, key, value)
    /\ log' = Append(log, DocRef(namespace, key))
    /\ pc' = IF Stage(cur, Range(log')) = "done" THEN "returned" ELSE "running"
    /\ UNCHANGED <<cur, exc, backendErr, nputs, before>>
    /\ UNCHANGED otherVars

\* the value a put has serialized into a document
Wrote(ref, value) ==
    wrote' = [r \in DOMAIN wrote \cup {ref} |->
                IF r = ref THEN [id |-> cur.checkpoint.id, value |-> value]
                ELSE wrote[r]]

\* put is called when the put before it has ended
CanCall == pc # "running" /\ nputs < MaxPuts

PutBegin(a) ==
    /\ CanCall
    /\ cur' = a
    /\ log' = <<>>
    /\ pc' = "running"
    /\ exc' = None
    /\ backendErr' = None
    /\ nputs' = nputs + 1
    /\ before' = docs
    /\ UNCHANGED <<docs, clock, wrote>>
    /\ UNCHANGED otherVars

PutBlob(w) ==
    /\ pc = "running"
    /\ Stage(cur, Range(log)) = "blobs"
    /\ w \in BlobWrites(cur)
    /\ BlobRef(cur.config, w.channel, w.version) \notin Range(log)
    /\ \A o \in BlobWrites(cur) :
          Before(o.channel, w.channel) => BlobRef(cur.config, o.channel, o.version) \in Range(log)
    /\ Write(BlobsNs(cur.config, w.channel), StrVersion(w.version),
             BlobValue(cur, w.channel))
    /\ Wrote(BlobRef(cur.config, w.channel, w.version),
             cur.checkpoint.channel_values[w.channel])

PutSends ==
    /\ pc = "running"
    /\ Stage(cur, Range(log)) = "sends"
    /\ Write(WritesNs(cur.config, cur.checkpoint.id), "pending_sends", SendsValue(cur))
    /\ Wrote(SendsRef(cur.config, cur.checkpoint.id), cur.checkpoint.pending_sends)

PutHeader ==
    /\ pc = "running"
    /\ Stage(cur, Range(log)) = "header"
    /\ Write(CheckpointsNs(cur.config), cur.checkpoint.id, HeaderValue(cur))
    /\ UNCHANGED wrote

\* the backend call of the next store put fails: put raises, nothing is written
BackendFail(error) ==
    /\ pc = "running"
    /\ pc' = "raised"
    /\ backendErr' = error
    /\ exc' = Propagate(error)
    /\ UNCHANGED <<docs, clock, cur, log, nputs, wrote, before>>
    /\ UNCHANGED otherVars

Next ==
    \/ CanCall /\ \E a \in PutArgs : PutBegin(a)
    \/ \E c \in Channels, v \in Versions : PutBlob([channel |-> c, version |-> v])
    \/ PutSends
    \/ PutHeader
    \/ \E error \in BackendErrors : BackendFail(error)

Spec == Init /\ [][Next]_vars

(***************************************************************************)
(* Concurrent saver puts: each thread of the caller runs one put, and the  *)
(* backend calls of the two puts interleave.                               *)
(***************************************************************************)
\* the puts of a thread: thread 1 puts checkpoint c1 with values "a", thread 2
\* puts c1 or c2 with values "b"; a put has a value for a channel exactly when
\* it has bumped it
ConcArgs ==
    [p \in Procs |->
        {a \in PutArgs :
            /\ p = 1 => a.checkpoint.id = "c1"
            /\ DOMAIN a.checkpoint.channel_values = DOMAIN a.new_versions
            /\ \A c \in DOMAIN a.checkpoint.channel_values :
                  a.checkpoint.channel_values[c] = (IF p = 1 THEN "a" ELSE "b")}]

\* the documents a thread has written
Written(p) == {procs[p].log[i].ref : i \in DOMAIN procs[p].log}

\* the store put that FirestoreSaver.put makes next
NextStorePut(a, written) ==
    CASE Stage(a, written) = "blobs" ->
            LET w == CHOOSE w \in BlobWrites(a) :
                        /\ BlobRef(a.config, w.channel, w.version) \notin written
                        /\ \A o \in BlobWrites(a) :
                              Before(o.channel, w.channel) =>
                                  BlobRef(a.config, o.channel, o.version) \in written
            IN  [namespace |-> BlobsNs(a.config, w.channel),
                 key |-> StrVersion(w.version),
                 value |-> BlobValue(a, w.channel)]
      [] Stage(a, written) = "sends" ->
            [namespace |-> WritesNs(a.config, a.checkpoint.id),
             key |-> "pending_sends",
             value |-> SendsValue(a)]
      [] Stage(a, written) = "header" ->
            [namespace |-> CheckpointsNs(a.config),
             key |-> a.checkpoint.id,
             value |-> HeaderValue(a)]

ConcCall(p, a) ==
    /\ procs[p].pc = "idle"
    /\ procs' = [procs EXCEPT ![p] = [IdleProc EXCEPT !.pc = "read", !.a = a]]
    /\ UNCHANGED <<docs, clock>>
    /\ UNCHANGED notConc

\* doc_ref.get() of the store put the thread is at
ConcRead(p) ==
    /\ procs[p].pc = "read"
    /\ LET n == NextStorePut(procs[p].a, Written(p))
       IN  procs' = [procs EXCEPT ![p].pc = "write",
                                  ![p].exists = StoreExists(docs, n.namespace, n.key)]
    /\ UNCHANGED <<docs, clock>>
    /\ UNCHANGED notConc

\* doc_ref.update or doc_ref.set of the store put the thread is at
ConcWrite(p) ==
    /\ procs[p].pc = "write"
    /\ LET n == NextStorePut(procs[p].a, Written(p))
           ref == DocRef(n.namespace, n.key)
       IN  IF UpdateFails(docs, procs[p].exists, n.namespace, n.key)
           THEN /\ procs' = [procs EXCEPT ![p].pc = "raised", ![p].exc = Propagate("NotFound")]
                /\ UNCHANGED <<docs, clock>>
           ELSE /\ clock' = clock + 1
                /\ docs' = StoreWrite(docs, clock + 1, procs[p].exists,
                                      n.namespace, n.key, n.value)
                /\ procs' = [procs EXCEPT
                      ![p].log = Append(@, [ref |-> ref, at |-> clock + 1, value |-> n.value]),
                      ![p].pc = IF Stage(procs[p].a, Written(p) \cup {ref}) = "done"
                                THEN "returned" ELSE "read"]
    /\ UNCHANGED notConc

NextConc ==
    \/ \E p \in Procs : procs[p].pc = "idle" /\ \E a \in ConcArgs[p] : ConcCall(p, a)
    \/ \E p \in Procs : ConcRead(p)
    \/ \E p \in Procs : ConcWrite(p)

SpecConc == Init /\ [][NextConc]_vars

(***************************************************************************)
(* Calls on the store itself: put, delete and get on a few namespaces, the *)
(* backend calls of concurrent calls interleaving.                         *)
(***************************************************************************)
MaxCalls == 3

\* ("a",) is a prefix of ("a", "b"); ("a/b",) has the path separator in a
\* segment; ("c",) shares nothing with the others
StoreNamespaces == {<<"a">>, <<"a", "b">>, <<"a/b">>, <<"c">>}

StoreKeys == {"1", "2"}

\* a call that has been made: what was called, where it stands ("read" and
\* "write" for the two backend calls of put, "call" for the one of delete and
\* of get, then "done" or "raised"), what put read, what get returned
Call(op, namespace, key, value) ==
    [op |-> op, namespace |-> namespace, key |-> key, value |-> value,
     pc |-> IF op = "put" THEN "read" ELSE "call",
     exists |-> FALSE, result |-> None, exc |-> None]

StoreCall(op, namespace, key, value) ==
    /\ Len(ops) < MaxCalls
    /\ ops' = Append(ops, Call(op, namespace, key, value))
    /\ UNCHANGED <<docs, clock, owner>>
    /\ UNCHANGED notStore

\* doc_ref.get() of a put
StoreReadStep(i) ==
    /\ ops[i].pc = "read"
    /\ ops' = [ops EXCEPT ![i].pc = "write",
                         ![i].exists = StoreExists(docs, ops[i].namespace, ops[i].key)]
    /\ UNCHANGED <<docs, clock, owner>>
    /\ UNCHANGED notStore

\* doc_ref.update or doc_ref.set of a put
StoreWriteStep(i) ==
    /\ ops[i].pc = "write"
    /\ LET o == ops[i]
           ref == DocRef(o.namespace, o.key)
       IN  IF UpdateFails(docs, o.exists, o.namespace, o.key)
           THEN /\ ops' = [ops EXCEPT ![i].pc = "raised", ![i].exc = Propagate("NotFound")]
                /\ UNCHANGED <<docs, clock, owner>>
           ELSE /\ clock' = clock + 1
                /\ docs' = StoreWrite(docs, clock + 1, o.exists, o.namespace, o.key, o.value)
                /\ owner' = [r \in DOMAIN owner \cup {ref} |->
                                IF r = ref
                                THEN [namespace |-> o.namespace, value |-> o.value, call |-> i]
                                ELSE owner[r]]
                /\ ops' = [ops EXCEPT ![i].pc = "done"]
    /\ UNCHANGED notStore

\* doc_ref.delete() of a delete
StoreDeleteStep(i) ==
    /\ ops[i].pc = "call"
    /\ ops[i].op = "delete"
    /\ docs' = StoreDelete(docs, ops[i].namespace, ops[i].key)
    /\ owner' = [r \in DOMAIN docs' |-> owner[r]]
    /\ ops' = [ops EXCEPT ![i].pc = "done"]
    /\ UNCHANGED clock
    /\ UNCHANGED notStore

\* FirestoreStore.get
StoreGetStep(i) ==
    /\ ops[i].pc = "call"
    /\ ops[i].op = "get"
    /\ ops' = [ops EXCEPT ![i].pc = "done",
                         ![i].result = StoreGet(docs, ops[i].namespace, ops[i].key)]
    /\ UNCHANGED <<docs, clock, owner>>
    /\ UNCHANGED notStore

NextStore ==
    \/ Len(ops) < MaxCalls /\ \E namespace \in StoreNamespaces, key \in StoreKeys :
          \/ \E value \in Values : StoreCall("put", namespace, key, value)
          \/ StoreCall("delete", namespace, key, None)
          \/ StoreCall("get", namespace, key, None)
    \/ \E i \in DOMAIN ops : StoreReadStep(i)
    \/ \E i \in DOMAIN ops : StoreWriteStep(i)
    \/ \E i \in DOMAIN ops : StoreDeleteStep(i)
    \/ \E i \in DOMAIN ops : StoreGetStep(i)

SpecStore == Init /\ [][NextStore]_vars

(***************************************************************************)
(* FirestoreStateAdapter: a collection of state documents, and one watch   *)
(* on a document.  The backend queues a snapshot of the watched document   *)
(* at each change and hands the snapshots, one at a time, to on_snapshot,  *)
(* which invokes the callback; unsubscribe closes the backend's watch.     *)
(***************************************************************************)
MaxAdapterCalls == 3
MaxUnsubscribes == 2

collection_name == "langgraph_states"

AdapterKeys == {"k1", "k2"}

\* the state dicts that callers put and that node functions return
States == {[n |-> "a"], [n |-> "b"], [m |-> "a"], [n |-> "a", m |-> "b"]}

\* the document of a state key
StateRef(key) == <<collection_name, key>>

\* FirestoreStateAdapter.put: the dict with _updated_at added, set as the document
AdapterPutValue(value, now) ==
    [f \in DOMAIN value \cup {"_updated_at"} |->
        IF f = "_updated_at" THEN now ELSE value[f]]

\* the backend queues a snapshot for a watch that is open on the document
Notify(w, key, doc) ==
    IF w.state = "active" /\ w.key = key
    THEN [w EXCEPT !.pending = Append(@, doc)]
    ELSE w

\* FirestoreStateAdapter.get
AdapterGet(d, key) == IF StateRef(key) \in DOMAIN d THEN d[StateRef(key)] ELSE None

\* a set that merges the fields into the document that is there
DocSetMerge(d, ref, value) ==
    [r \in DOMAIN d \cup {ref} |->
        IF r # ref THEN d[r]
        ELSE IF ref \notin DOMAIN d THEN value
        ELSE [f \in DOMAIN d[ref] \cup DOMAIN value |->
                IF f \in DOMAIN value THEN value[f] ELSE d[ref][f]]]

\* doc_ref.set(value): the document becomes the dict
DocSet(d, ref, value) ==
    [r \in DOMAIN d \cup {ref} |-> IF r = ref THEN value ELSE d[r]]

\* doc_ref.update(value) on a document that is there: the fields of the dict
\* are written, the other fields stay
DocUpdate(d, ref, value) ==
    [d EXCEPT ![ref] = [f \in DOMAIN d[ref] \cup DOMAIN value |->
                            IF f \in DOMAIN value THEN value[f] ELSE d[ref][f]]]

\* a call that has ended: the dict passed (or returned by the node function)
\* as it was, the same dict as the caller has it now, what was returned or
\* raised, and the number of backend reads and writes made
Ended(op, key, arg, after, error, reads, writes) ==
    [op |-> op, key |-> key, arg |-> arg, after |-> after, exc |-> error,
     reads |-> reads, writes |-> writes, at |-> clock + 1]

AdapterPut(key, value) ==
    /\ nops < MaxAdapterCalls
    /\ nops' = nops + 1
    /\ clock' = clock + 1
    /\ docs' = DocSet(docs, StateRef(key), AdapterPutValue(value, clock + 1))
    /\ sub' = Notify(sub, key, AdapterPutValue(value, clock + 1))
    /\ acall' = Ended("put", key, value, AdapterPutValue(value, clock + 1), None, 0, 1)
    /\ UNCHANGED invoked
    /\ UNCHANGED notAdapter

\* FirestoreStateAdapter.update: _updated_at is added to the dict, then
\* doc_ref.update, which the backend fails with NotFound without a document
AdapterUpdate(key, value) ==
    /\ nops < MaxAdapterCalls
    /\ nops' = nops + 1
    /\ clock' = clock + 1
    /\ IF StateRef(key) \in DOMAIN docs
       THEN /\ docs' = DocUpdate(docs, StateRef(key), AdapterPutValue(value, clock + 1))
            /\ sub' = Notify(sub, key, docs'[StateRef(key)])
            /\ acall' = Ended("update", key, value, AdapterPutValue(value, clock + 1),
                              None, 0, 1)
       ELSE /\ acall' = Ended("update", key, value, AdapterPutValue(value, clock + 1),
                              Propagate("NotFound"), 0, 0)
            /\ UNCHANGED <<docs, sub>>
    /\ UNCHANGED invoked
    /\ UNCHANGED notAdapter

\* the thread ids of the configs a node is called with; None for a call
\* without config or without thread_id in it
NodeThreads == AdapterKeys \cup {None}

\* the wrapper of firestore_node around a function that returns result, a
\* dict or (isdict false) something else: with a thread id it reads the state
\* document, calls the function, hands a dict result to adapter.update, and
\* returns the result
NodeCall(thread_id, isdict, result) ==
    /\ nops < MaxAdapterCalls
    /\ nops' = nops + 1
    /\ clock' = clock + 1
    /\ IF thread_id = None
       THEN /\ acall' = Ended("node", thread_id, result, result, None, 0, 0)
                            @@ [isdict |-> isdict]
            /\ UNCHANGED <<docs, sub>>
       ELSE IF ~isdict
       THEN /\ acall' = Ended("node", thread_id, result, result, None, 1, 0)
                            @@ [isdict |-> isdict]
            /\ UNCHANGED <<docs, sub>>
       ELSE IF StateRef(thread_id) \in DOMAIN docs
       THEN /\ docs' = DocUpdate(docs, StateRef(thread_id),
                                 AdapterPutValue(result, clock + 1))
            /\ sub' = Notify(sub, thread_id, docs'[StateRef(thread_id)])
            /\ acall' = Ended("node", thread_id, result,
                              AdapterPutValue(result, clock + 1), None, 1, 1)
                            @@ [isdict |-> isdict]
       ELSE /\ acall' = Ended("node", thread_id, result,
                              AdapterPutValue(result, clock + 1),
                              Propagate("NotFound"), 1, 0)
                            @@ [isdict |-> isdict]
            /\ UNCHANGED <<docs, sub>>
    /\ UNCHANGED invoked
    /\ UNCHANGED notAdapter

\* FirestoreStateAdapter.watch: doc_ref.on_snapshot, whose first snapshot is
\* the document as it is
AdapterWatch(key) ==
    /\ sub.state = "none"
    /\ sub' = [NoSub EXCEPT !.state = "active", !.key = key,
                            !.pending = IF StateRef(key) \in DOMAIN docs
                                        THEN <<docs[StateRef(key)]>> ELSE <<>>]
    /\ UNCHANGED <<docs, clock, invoked, nops, acall>>
    /\ UNCHANGED notAdapter

\* on_snapshot: the callback is invoked with the document id and its dict
OnSnapshot ==
    /\ sub.state = "active"
    /\ ~sub.running
    /\ sub.pending # <<>>
    /\ invoked' = Append(invoked, [key |-> sub.key, doc |-> Head(sub.pending)])
    /\ sub' = [sub EXCEPT !.pending = Tail(@), !.running = TRUE]
    /\ UNCHANGED <<docs, clock, nops, acall>>
    /\ UNCHANGED notAdapter

\* the callback returns
CallbackReturn ==
    /\ sub.running
    /\ sub' = [sub EXCEPT !.running = FALSE]
    /\ UNCHANGED <<docs, clock, invoked, nops, acall>>
    /\ UNCHANGED notAdapter

\* an unsubscribe that leaves the backend's watch open
UnsubscribedNot(w) == w

\* watch.unsubscribe(): the backend's watch is closed and hands out no more
\* snapshots; a callback that is running is not interrupted
Unsubscribed(w) == [w EXCEPT !.state = "closed", !.pending = <<>>]

\* the function watch returned is called
Unsubscribe ==
    /\ sub.state \in {"active", "closed"}
    /\ Len(sub.unsubs) < MaxUnsubscribes
    /\ sub' = [Unsubscribed(sub) EXCEPT !.unsubs = Append(@, clock)]
    /\ UNCHANGED <<docs, clock, invoked, nops, acall>>
    /\ UNCHANGED notAdapter

NextAdapter ==
    \/ \E key \in AdapterKeys, value \in States : AdapterPut(key, value)
    \/ \E key \in AdapterKeys, value \in States : AdapterUpdate(key, value)
    \/ \E thread_id \in NodeThreads :
          \/ \E result \in States : NodeCall(thread_id, TRUE, result)
          \/ NodeCall(thread_id, FALSE, None)
    \/ \E key \in AdapterKeys : AdapterWatch(key)
    \/ OnSnapshot
    \/ CallbackReturn
    \/ Unsubscribe

SpecAdapter == Init /\ [][NextAdapter]_vars

(***************************************************************************)
(* Saver puts under several scopes (thread id, checkpoint namespace).      *)
(***************************************************************************)
\* two threads with the default namespace, and two scopes whose strings have
\* the path separator at different places
ScopeConfigs ==
    {[thread_id |-> "a"],
     [thread_id |-> "b"],
     [thread_id |-> "a", checkpoint_namespace |-> "b/c"],
     [thread_id |-> "a/b", checkpoint_namespace |-> "c"]}

\* puts of a checkpoint with channel x at version 1
ScopeArgs ==
    {[config |-> config,
      checkpoint |-> [id |-> id,
                      channel_versions |-> [x |-> 1],
                      channel_values |-> [x |-> value],
                      pending_sends |-> sends],
      metadata |-> MetadataOf(id),
      new_versions |-> [x |-> 1]] :
        config \in ScopeConfigs, id \in CheckpointIds, value \in Values,
        sends \in PendingSends}

NextScope ==
    \/ CanCall /\ \E a \in ScopeArgs : PutBegin(a)
    \/ \E c \in Channels, v \in Versions : PutBlob([channel |-> c, version |-> v])
    \/ PutSends
    \/ PutHeader
    \/ \E error \in BackendErrors : BackendFail(error)

SpecScope == Init /\ [][NextScope]_vars

(***************************************************************************)
(* Properties                                                              *)
(***************************************************************************)
\* what get returns for the checkpoint of the put called last
GotLast == SaverGet(docs, cur.config, cur.checkpoint.id)

\* a put that writes every channel of its checkpoint: channel_versions names
\* the channels of channel_values and no other, each at its new version
WritesAllChannels(a) ==
    /\ DOMAIN a.checkpoint.channel_versions = DOMAIN a.checkpoint.channel_values
    /\ \A c \in DOMAIN a.checkpoint.channel_values :
          /\ c \in DOMAIN a.new_versions
          /\ a.new_versions[c] = a.checkpoint.channel_versions[c]

\* the pending sends on record for a checkpoint id
RecordedSends(config, checkpoint_id) ==
    IF SendsRef(config, checkpoint_id) \in DOMAIN wrote
    THEN wrote[SendsRef(config, checkpoint_id)].value
    ELSE <<>>

\* C1 as claimed: after any put has returned, get of its checkpoint id gives
\* back the channel values and the pending sends that were put, whatever
\* new_versions was.
C1_RoundTripAnyPut ==
    pc = "returned" =>
        /\ GotLast.channel_values = cur.checkpoint.channel_values
        /\ GotLast.pending_sends = cur.checkpoint.pending_sends

\* C1 amended: after a put has returned, get of its checkpoint id gives back
\* the channel values that were put when the put wrote every channel of the
\* checkpoint, and the pending sends that were put, in order, when there were
\* any; a put without pending sends leaves those on record for the id.
C1_RoundTrip ==
    pc = "returned" =>
        /\ WritesAllChannels(cur) =>
              GotLast.channel_values = cur.checkpoint.channel_values
        /\ GotLast.pending_sends =
              IF cur.checkpoint.pending_sends # <<>>
              THEN cur.checkpoint.pending_sends
              ELSE RecordedSends(cur.config, cur.checkpoint.id)

\* a second put has returned after writing two channels and two pending sends
C1_Witness ==
    /\ pc = "returned"
    /\ nputs = 2
    /\ WritesAllChannels(cur)
    /\ DOMAIN cur.checkpoint.channel_values = Channels
    /\ cur.checkpoint.pending_sends = <<"m1", "m2">>

\* the checkpoint documents in store: where they are and what they hold
StoredHeaders ==
    {h \in [config : Configs, id : CheckpointIds] :
        HeaderRef(h.config, h.id) \in DOMAIN docs}

HeaderOf(h) == docs[HeaderRef(h.config, h.id)].value.checkpoint

\* C2: in every reachable state, every stored checkpoint document has, for
\* each channel and version of its channel_versions, a blob document in store.
C2_NoDanglingReference ==
    \A h \in StoredHeaders :
        \A c \in DOMAIN HeaderOf(h).channel_versions :
            BlobRef(h.config, c, HeaderOf(h).channel_versions[c]) \in DOMAIN docs

\* the position of a document in the writes of the put called last, 0 if the
\* put has not written it
WrittenAt(ref) ==
    IF ref \in Range(log) THEN CHOOSE i \in DOMAIN log : log[i] = ref ELSE 0

\* C3: a put writes its checkpoint document only after it has written every
\* one of its blobs and its pending-sends record; the checkpoint document is
\* the last document it writes.
C3_WriteBeforeCommit ==
    pc # "idle" =>
    LET header == WrittenAt(HeaderRef(cur.config, cur.checkpoint.id))
    IN  header # 0 =>
            /\ header = Len(log)
            /\ \A c \in DOMAIN cur.checkpoint.channel_values :
                  c \in DOMAIN cur.new_versions =>
                      LET blob == WrittenAt(BlobRef(cur.config, c, cur.new_versions[c]))
                      IN  blob # 0 /\ blob < header
            /\ cur.checkpoint.pending_sends # <<>> =>
                  LET sends == WrittenAt(SendsRef(cur.config, cur.checkpoint.id))
                  IN  sends # 0 /\ sends < header

\* a put has written two blobs, its pending sends and then its checkpoint
\* document
C3_Witness ==
    /\ pc = "returned"
    /\ Len(log) = 4
    /\ log[4] = HeaderRef(cur.config, cur.checkpoint.id)

\* C4: when the backend call of a blob write or of the pending-sends write
\* fails, put raises that same error, that put has not written and does not
\* write the checkpoint document, and it issues no further write.
C4_FailureStopsPut ==
    [][/\ (pc' = "raised" /\ Stage(cur', Range(log')) \in {"blobs", "sends"}) =>
             /\ exc' \in BackendErrors
             /\ exc' = backendErr'
             /\ HeaderRef(cur'.config, cur'.checkpoint.id) \notin Range(log')
       /\ pc = "raised" => docs' = docs /\ clock' = clock
      ]_vars

\* a put has raised at its pending-sends write, after it had written a blob
C4_Witness ==
    /\ pc = "raised"
    /\ exc = "StoreUnavailable"
    /\ Len(log) >= 1
    /\ Stage(cur, Range(log)) = "sends"

\* what get would return if it raised on a missing blob
IntegrityViolation == [raised |-> "IntegrityViolation"]

\* C5: when a stored checkpoint document names a channel version that has no
\* blob document, get of that checkpoint raises IntegrityViolation.
C5_IntegrityDetection ==
    \A h \in StoredHeaders :
        (\E c \in DOMAIN HeaderOf(h).channel_versions :
            BlobRef(h.config, c, HeaderOf(h).channel_versions[c]) \notin DOMAIN docs)
        => SaverGet(docs, h.config, h.id) = IntegrityViolation

\* the document at a place of the backend, with its timestamps
DocAt(d, ref) == IF ref \in DOMAIN d THEN d[ref] ELSE NoItem

\* C6: a step of a put leaves every blob document unchanged (value,
\* created_at and updated_at) and creates none, except at the version that
\* new_versions gives to a channel of new_versions.
C6_Incremental ==
    [][\A config \in Configs, c \in Channels, v \in Versions :
          (c \notin DOMAIN cur'.new_versions \/ cur'.new_versions[c] # v) =>
              DocAt(docs', BlobRef(config, c, v)) = DocAt(docs, BlobRef(config, c, v))
      ]_vars

\* a put that has a value for a channel outside new_versions has returned
\* after writing the blob of another channel, and a blob of the first channel
\* is in store
C6_Witness ==
    /\ pc = "returned"
    /\ Len(log) >= 2
    /\ \E c \in DOMAIN cur.checkpoint.channel_values, v \in Versions :
          /\ c \notin DOMAIN cur.new_versions
          /\ BlobRef(cur.config, c, v) \in DOMAIN docs

\* a channel of the put called last whose blob another checkpoint's put wrote:
\* in channel_versions, not in new_versions, not in channel_values
SharedChannels ==
    {c \in DOMAIN cur.checkpoint.channel_versions :
        LET ref == BlobRef(cur.config, c, cur.checkpoint.channel_versions[c])
        IN  /\ c \notin DOMAIN cur.new_versions
            /\ c \notin DOMAIN cur.checkpoint.channel_values
            /\ ref \in DOMAIN wrote
            /\ wrote[ref].id # cur.checkpoint.id}

\* C7: when a put has returned whose checkpoint names, for a channel it
\* neither has a value for nor has in new_versions, the version of a blob that
\* the put of another checkpoint wrote, get of the checkpoint returns for that
\* channel the value the other put wrote; the put has written no blob for
\* the channel, its checkpoint document holds no channel values, and one
\* document holds the blob.
C7_BlobShared ==
    pc = "returned" =>
        \A c \in SharedChannels :
            LET ref == BlobRef(cur.config, c, cur.checkpoint.channel_versions[c])
            IN  /\ c \in DOMAIN GotLast.channel_values
                /\ GotLast.channel_values[c] = wrote[ref].value
                /\ ref \notin Range(log)
                /\ docs[HeaderRef(cur.config, cur.checkpoint.id)].value.checkpoint.channel_values
                       = EmptyDict
                /\ Cardinality({r \in DOMAIN docs : r = ref}) = 1

\* a put has returned whose checkpoint shares a blob with another checkpoint
C7_Witness ==
    /\ pc = "returned"
    /\ SharedChannels # {}

\* C8: once the checkpoint document of an id is in store, a step of a put
\* for another id does not change the channel values and the pending sends
\* that get returns for that id.
C8_HistoryStable ==
    [][\A h \in StoredHeaders :
          cur'.checkpoint.id # h.id =>
              /\ SaverGet(docs', h.config, h.id).channel_values
                     = SaverGet(docs, h.config, h.id).channel_values
              /\ SaverGet(docs', h.config, h.id).pending_sends
                     = SaverGet(docs, h.config, h.id).pending_sends
      ]_vars

\* C9: once a blob document is in store, no step of a put changes its type
\* tag or its payload.
C9_BlobsAppendOnly ==
    [][\A config \in Configs, c \in Channels, v \in Versions :
          BlobRef(config, c, v) \in DOMAIN docs =>
              /\ BlobRef(config, c, v) \in DOMAIN docs'
              /\ docs'[BlobRef(config, c, v)].value = docs[BlobRef(config, c, v)].value
      ]_vars

\* C10: list returns the checkpoints in strictly descending order of
\* checkpoint id, and list with limit 1 returns the one of greatest id.
C10_ListNewestFirst ==
    \A config \in Configs :
        LET all == SaverList(docs, config, Unset)
            one == SaverList(docs, config, 1)
        IN  /\ \A i, j \in DOMAIN all :
                  i < j => DocIdRank(all[i][1]) > DocIdRank(all[j][1])
            /\ all # <<>> =>
                  /\ Len(one) = 1
                  /\ \A i \in DOMAIN all : DocIdRank(one[1][1]) >= DocIdRank(all[i][1])

\* the checkpoint ids that have a checkpoint document in a scope
StoredIds(config) == {h.id : h \in {s \in StoredHeaders : s.config = config}}

\* the greatest of a set of checkpoint ids
Greatest(ids) == CHOOSE m \in ids : \A o \in ids : DocIdRank(m) >= DocIdRank(o)

\* C11: get without a checkpoint id returns what get returns for the greatest
\* checkpoint id stored in the scope, and returns nothing only when the scope
\* holds no checkpoint.
C11_LatestResolution ==
    \A config \in Configs :
        IF StoredIds(config) = {}
        THEN SaverGet(docs, config, None) = NoItem
        ELSE /\ SaverGet(docs, config, None) # NoItem
             /\ SaverGet(docs, config, None)
                    = SaverGet(docs, config, Greatest(StoredIds(config)))

\* C12: after a put has returned, get of its checkpoint id returns the pending
\* sends of that put, an empty sequence included, whatever an earlier put for
\* the same id had recorded.
C12_SendsOverwritten ==
    (pc = "returned" /\ SendsRef(cur.config, cur.checkpoint.id) \in DOMAIN wrote) =>
        GotLast.pending_sends = cur.checkpoint.pending_sends

\* what get returns for the checkpoint of a thread's put
Got(p) == SaverGet(docs, procs[p].a.config, procs[p].a.checkpoint.id)

\* the blob documents a put writes
BlobRefs(a) == {BlobRef(a.config, w.channel, w.version) : w \in BlobWrites(a)}

\* the two threads have called put for different checkpoint ids, and the puts
\* write no blob document in common
DisjointPuts ==
    /\ \A p \in Procs : procs[p].pc # "idle"
    /\ procs[1].a.checkpoint.id # procs[2].a.checkpoint.id
    /\ BlobRefs(procs[1].a) \cap BlobRefs(procs[2].a) = {}

\* no put has raised, and once both have returned get of each checkpoint id
\* returns the channel values and the pending sends of the put of that id
EachGetsItsOwn ==
    /\ \A p \in Procs : procs[p].pc # "raised"
    /\ (\A p \in Procs : procs[p].pc = "returned") =>
          \A p \in Procs :
              /\ Got(p).channel_values = procs[p].a.checkpoint.channel_values
              /\ Got(p).pending_sends = procs[p].a.checkpoint.pending_sends

\* C13 as claimed: two concurrent puts for different checkpoint ids that write
\* disjoint blob documents never raise, in any interleaving of their backend
\* reads and writes, and afterwards get of each id returns the channel values
\* and pending sends of its own put.
C13_ConcurrentPutsAnyShape == DisjointPuts => EachGetsItsOwn

\* C13 amended: the same, for two puts that each write every channel their
\* checkpoint names, on a scope that held no record of either id.
C13_ConcurrentPuts ==
    (DisjointPuts /\ \A p \in Procs : WritesAllChannels(procs[p].a)) => EachGetsItsOwn

\* both puts have returned, each after writing a blob and its pending sends,
\* and thread 2 wrote between two writes of thread 1
C13_Witness ==
    /\ DisjointPuts
    /\ \A p \in Procs :
          /\ procs[p].pc = "returned"
          /\ WritesAllChannels(procs[p].a)
          /\ Len(procs[p].log) >= 3
    /\ \E i, j \in DOMAIN procs[1].log, k \in DOMAIN procs[2].log :
          procs[1].log[i].at < procs[2].log[k].at
              /\ procs[2].log[k].at < procs[1].log[j].at

\* the writes of the two threads to a document, and the last of them
WritesTo(ref) == {e \in UNION {Range(procs[p].log) : p \in Procs} : e.ref = ref}

LastWrite(ref) == CHOOSE e \in WritesTo(ref) : \A o \in WritesTo(ref) : o.at <= e.at

\* the two threads have called put for the same checkpoint id
SameIdPuts ==
    /\ \A p \in Procs : procs[p].pc # "idle"
    /\ procs[1].a.checkpoint.id = procs[2].a.checkpoint.id

\* C14: two concurrent puts for the same checkpoint id never raise, in any
\* interleaving of their backend reads and writes, and every document (the
\* checkpoint document, each blob, the pending-sends record) holds, whole, the
\* value of the store put that wrote it last.
C14_LastWriterWins ==
    SameIdPuts =>
        /\ \A p \in Procs : procs[p].pc # "raised"
        /\ \A ref \in DOMAIN docs :
              /\ WritesTo(ref) # {}
              /\ docs[ref].value = LastWrite(ref).value

\* both puts of one checkpoint id have returned; the checkpoint document is
\* the one thread 1 wrote last, and a blob both have written is the one
\* thread 2 wrote last
C14_Witness ==
    /\ SameIdPuts
    /\ \A p \in Procs : procs[p].pc = "returned"
    /\ LastWrite(HeaderRef(procs[1].a.config, procs[1].a.checkpoint.id))
           \in Range(procs[1].log)
    /\ \E ref \in BlobRefs(procs[1].a) \cap BlobRefs(procs[2].a) :
          LastWrite(ref) \in Range(procs[2].log)
    /\ procs[1].a.checkpoint.channel_versions # procs[2].a.checkpoint.channel_versions

\* the document a call is about
RefOf(o) == DocRef(o.namespace, o.key)

\* a step in which put i makes its write, delete i or get i its one call
Acts(i) == ops[i].pc \in {"write", "call"} /\ ops'[i].pc # ops[i].pc

\* C15: while an item is in store its created_at stays the one its first put
\* gave it, and each write of a put changes its updated_at, in every
\* interleaving of the reads and writes of concurrent puts.
C15_CreatedAtWriteOnce ==
    [][\A ref \in DOMAIN docs \cap DOMAIN docs' :
          /\ docs'[ref].created_at = docs[ref].created_at
          /\ (\E i \in DOMAIN ops : Acts(i) /\ ops[i].op = "put" /\ RefOf(ops[i]) = ref) =>
                docs'[ref].updated_at # docs[ref].updated_at
      ]_vars

\* C16: a put never raises because the item is or is not there, whatever puts
\* and deletes run beside it: its write completes and leaves the item with the
\* value of the put and both timestamps.
C16_PutNeverFails ==
    [][\A i \in DOMAIN ops :
          (Acts(i) /\ ops[i].op = "put") =>
              /\ ops'[i].pc = "done"
              /\ ops'[i].exc = None
              /\ RefOf(ops[i]) \in DOMAIN docs'
              /\ docs'[RefOf(ops[i])].value = ops[i].value
              /\ {"created_at", "updated_at"} \subseteq DOMAIN docs'[RefOf(ops[i])]
      ]_vars

\* C17: a get of an item that is not in store returns None and does not
\* raise; a delete of it does not raise and leaves every document as it was;
\* and a delete repeated changes nothing more.
C17_AbsenceNoError ==
    [][\A i \in DOMAIN ops :
          (Acts(i) /\ ops[i].op \in {"get", "delete"}) =>
              /\ ops[i].op = "delete" =>
                    StoreDelete(docs', ops[i].namespace, ops[i].key) = docs'
              /\ RefOf(ops[i]) \notin DOMAIN docs =>
                    /\ ops'[i].pc = "done"
                    /\ ops'[i].exc = None
                    /\ ops[i].op = "get" => ops'[i].result = NoItem
                    /\ ops[i].op = "delete" => docs' = docs
      ]_vars

\* a put has stored an item, then a delete and a get of an item that was never
\* put have both completed, the item of the put still in store beside it
C17_Witness ==
    /\ Len(ops) = 3
    /\ \A i \in DOMAIN ops : ops[i].pc = "done"
    /\ ops[1].op = "put" /\ ops[2].op = "delete" /\ ops[3].op = "get"
    /\ RefOf(ops[2]) = RefOf(ops[3])
    /\ RefOf(ops[2]) # RefOf(ops[1])
    /\ RefOf(ops[2])[1] = RefOf(ops[1])[1]
    /\ ops[3].result = NoItem
    /\ DOMAIN docs = {RefOf(ops[1])}

IsPrefix(prefix, namespace) ==
    /\ Len(prefix) <= Len(namespace)
    /\ SubSeq(namespace, 1, Len(prefix)) = prefix

\* the items search returns for a namespace prefix
Found(namespace_prefix) ==
    Range(StoreSearch(docs, namespace_prefix, EmptyDict, Unset, Unset))

\* C18: search returns every stored item whose namespace starts with the
\* prefix, the items of longer namespaces included, each with the namespace
\* it was put under.
C18_SearchByPrefix ==
    \A prefix \in StoreNamespaces : \A ref \in DOMAIN docs :
        IsPrefix(prefix, owner[ref].namespace) =>
            \E item \in Found(prefix) :
                /\ item.namespace = owner[ref].namespace
                /\ item.key = ref[2]
                /\ item.value = docs[ref].value

\* C19: an item put under namespace B is not among the items search returns
\* for a namespace A, nor the item get returns for A and its key, when A is
\* neither B nor a prefix of B, whatever characters the segments have.
C19_NamespaceIsolation ==
    \A A \in StoreNamespaces : \A ref \in DOMAIN docs :
        LET B == owner[ref].namespace
        IN  (A # B /\ ~IsPrefix(A, B)) =>
                /\ \A item \in Found(A) : DocRef(A, item.key) # ref
                /\ \A key \in StoreKeys :
                      StoreGet(docs, A, key).exists => DocRef(A, key) # ref

\* C20: once unsubscribe has returned, no invocation of the callback starts,
\* whatever changes the document has afterwards; and a second unsubscribe
\* does not raise and changes nothing of the subscription.
C20_UnsubscribeStops ==
    [][(sub.state # "none" /\ Len(sub.unsubs) >= 1) =>
          /\ invoked' = invoked
          /\ sub'.state = sub.state
          /\ sub'.pending = sub.pending
          /\ sub'.running => sub.running
      ]_vars

\* the callback was invoked for a change of the document, unsubscribe was
\* then called twice, and the watched document was put again after that
C20_Witness ==
    /\ sub.state = "closed"
    /\ Len(sub.unsubs) = 2
    /\ Len(invoked) = 1
    /\ invoked[1].doc._updated_at <= sub.unsubs[1]
    /\ StateRef(sub.key) \in DOMAIN docs
    /\ docs[StateRef(sub.key)]._updated_at > sub.unsubs[2]

\* the checkpoint documents a store holds, and the ids list returns
HeadersIn(d) ==
    {h \in [config : Configs, id : CheckpointIds] : HeaderRef(h.config, h.id) \in DOMAIN d}

ListedIds(d, config) ==
    {SaverList(d, config, Unset)[i][1] : i \in DOMAIN SaverList(d, config, Unset)}

\* the put called last uses new version tokens: when it was called, no blob
\* document was at a version it writes and no checkpoint document named one
NewVersionTokens ==
    \A w \in BlobWrites(cur) :
        /\ BlobRef(cur.config, w.channel, w.version) \notin DOMAIN before
        /\ \A h \in HeadersIn(before) :
              LET versions == before[HeaderRef(h.config, h.id)].value.checkpoint.channel_versions
              IN  ~(h.config = cur.config /\ w.channel \in DOMAIN versions
                        /\ versions[w.channel] = w.version)

\* C21 as claimed: a put with new version tokens that has raised (which it
\* does before its header write only) leaves its checkpoint id out of list and
\* absent for get, and get of every checkpoint that was in store returns what
\* it returned when the put was called.
C21_FailedPutInvisibleAnyId ==
    (pc = "raised" /\ Len(log) >= 1 /\ NewVersionTokens) =>
        /\ cur.checkpoint.id \notin ListedIds(docs, cur.config)
        /\ SaverGet(docs, cur.config, cur.checkpoint.id) = NoItem
        /\ \A h \in HeadersIn(before) :
              SaverGet(docs, h.config, h.id) = SaverGet(before, h.config, h.id)

\* C21 amended: a put of a checkpoint id that was not in store, with new version
\* tokens, that has raised (which it does before its header write only) leaves
\* the id out of list and absent for get, and get of every checkpoint that was
\* in store returns what it returned when the put was called.
C21_FailedPutInvisible ==
    (/\ pc = "raised"
     /\ HeaderRef(cur.config, cur.checkpoint.id) \notin DOMAIN before
     /\ NewVersionTokens) =>
        /\ cur.checkpoint.id \notin ListedIds(docs, cur.config)
        /\ SaverGet(docs, cur.config, cur.checkpoint.id) = NoItem
        /\ \A h \in HeadersIn(before) :
              SaverGet(docs, h.config, h.id) = SaverGet(before, h.config, h.id)

\* the put of c2 has raised after writing a blob and its pending sends, with
\* c1 in store and holding a value
C21_Witness ==
    /\ pc = "raised"
    /\ HeaderRef(cur.config, cur.checkpoint.id) \notin DOMAIN before
    /\ NewVersionTokens
    /\ Len(log) = 2
    /\ Stage(cur, Range(log)) = "header"
    /\ \E h \in HeadersIn(before) :
          SaverGet(docs, h.config, h.id).channel_values # EmptyDict

\* the checkpoint document of the put called last
LastHeader == docs[HeaderRef(cur.config, cur.checkpoint.id)].value

\* C22: the checkpoint document a put has written has channel_values {} and
\* pending_sends [] whatever the checkpoint passed, the metadata passed, as
\* parent_checkpoint_id the entry of metadata.parents for the checkpoint
\* namespace (None without one), and every other field of the checkpoint, id
\* and channel_versions among them, as passed.
C22_HeaderContent ==
    pc = "returned" =>
        /\ LastHeader.checkpoint.channel_values = EmptyDict
        /\ LastHeader.checkpoint.pending_sends = <<>>
        /\ DOMAIN LastHeader.checkpoint = DOMAIN cur.checkpoint
        /\ \A f \in DOMAIN cur.checkpoint \ {"channel_values", "pending_sends"} :
              LastHeader.checkpoint[f] = cur.checkpoint[f]
        /\ LastHeader.metadata = cur.metadata
        /\ LastHeader.parent_checkpoint_id =
              IF "parents" \in DOMAIN cur.metadata
                    /\ _get_checkpoint_namespace(cur.config) \in DOMAIN cur.metadata.parents
              THEN cur.metadata.parents[_get_checkpoint_namespace(cur.config)]
              ELSE None

\* a put with channel values, pending sends and a parent in its metadata has
\* returned
C22_Witness ==
    /\ pc = "returned"
    /\ DOMAIN cur.checkpoint.channel_values = Channels
    /\ cur.checkpoint.pending_sends # <<>>
    /\ LastHeader.parent_checkpoint_id = "c1"

\* the limits and offsets tried
MaxLimit == 2

\* C23: search with limit L returns at most L items, for every L from 0 on,
\* and search with offset k returns the matching items without the first k.
C23_LimitsCap ==
    \A namespace \in StoreNamespaces :
        LET all == StoreSearch(docs, namespace, EmptyDict, Unset, Unset)
        IN  /\ \A L \in 0..MaxLimit :
                  Len(StoreSearch(docs, namespace, EmptyDict, L, Unset)) <= L
            /\ \A k \in 0..MaxLimit :
                  StoreSearch(docs, namespace, EmptyDict, Unset, k)
                      = [i \in 1..(IF Len(all) > k THEN Len(all) - k ELSE 0) |-> all[i + k]]

\* C24: after put(key, value) the document of the key has the fields of value
\* and _updated_at and no other, whatever it had before; update(key, value) on
\* a document that is there writes the fields of value and _updated_at and
\* leaves every other field of the document as it was.
C24_PutOverwritesUpdateMerges ==
    [][(acall' # acall /\ acall'.op \in {"put", "update"}) =>
          LET c == acall'
              old == docs[StateRef(c.key)]
              new == AdapterGet(docs', c.key)
          IN  /\ c.op = "put" =>
                    /\ DOMAIN new = DOMAIN c.arg \cup {"_updated_at"}
                    /\ \A f \in DOMAIN c.arg : new[f] = c.arg[f]
                    /\ new._updated_at = c.at
              /\ (c.op = "update" /\ StateRef(c.key) \in DOMAIN docs) =>
                    /\ c.exc = None
                    /\ DOMAIN new = DOMAIN old \cup DOMAIN c.arg \cup {"_updated_at"}
                    /\ \A f \in DOMAIN c.arg : new[f] = c.arg[f]
                    /\ new._updated_at = c.at
                    /\ \A f \in DOMAIN old \ (DOMAIN c.arg \cup {"_updated_at"}) :
                          new[f] = old[f]
      ]_vars

\* an update has written one field of a document that has another field from
\* an earlier put
C24_Witness ==
    /\ acall.op = "update"
    /\ acall.exc = None
    /\ DOMAIN acall.arg = {"m"}
    /\ DOMAIN docs[StateRef(acall.key)] = {"n", "m", "_updated_at"}
    /\ docs[StateRef(acall.key)].n = "b"

\* C25: a node called with a thread id whose function returns a dict ends
\* without error and the state document of the thread id then has every key
\* and value of the dict, whether or not the document was there before; a node
\* called without thread id makes no read and no write.
C25_NodePersists ==
    acall.op = "node" =>
        /\ (acall.key # None /\ acall.isdict) =>
              /\ acall.exc = None
              /\ StateRef(acall.key) \in DOMAIN docs
              /\ \A f \in DOMAIN acall.arg :
                    /\ f \in DOMAIN docs[StateRef(acall.key)]
                    /\ docs[StateRef(acall.key)][f] = acall.arg[f]
        /\ acall.key = None => acall.reads = 0 /\ acall.writes = 0

\* C27: put and update leave the dict they are passed as it was, and the node
\* wrapper returns the dict of the wrapped function as that function made it,
\* without _updated_at.
C27_CallerDataUnchanged ==
    acall.op \in {"put", "update", "node"} => acall.after = acall.arg

\* the scope of a config
Scope(config) == <<_get_thread_id(config), _get_checkpoint_namespace(config)>>

\* C26: a step of a put under one scope changes neither what list returns nor
\* what get returns for any checkpoint id under any other scope, whatever the
\* strings of the thread ids and the checkpoint namespaces.
C26_ScopeIsolation ==
    [][\A config \in ScopeConfigs :
          Scope(config) # Scope(cur'.config) =>
              /\ SaverList(docs', config, Unset) = SaverList(docs, config, Unset)
              /\ \A id \in CheckpointIds :
                    SaverGet(docs', config, id) = SaverGet(docs, config, id)
      ]_vars

====
